---- MODULE Spec2Model ----
(***************************************************************************)
(* Model of the PNG chunk codec of rust-pngme: ChunkType (chunk_type.rs)   *)
(* and Chunk (chunk.rs).                                                   *)
(*                                                                         *)
(* A u8 is a number in 0..255.  A u32 is a pair <<hi, lo>> of 16-bit       *)
(* halves (value = hi * 65536 + lo), so that every 32-bit value is         *)
(* representable.  Option<T> is a sequence of length 0 (None) or 1 (Some). *)
(* A call's outcome is a record with a status "Ok", "Err" or "panic".      *)
(***************************************************************************)
EXTENDS FiniteSets, Integers, Sequences, TLC

VARIABLES chunk_type, chunk, value, ret

vars == <<chunk_type, chunk, value, ret>>

-----------------------------------------------------------------------------
(* Bounds of the model *)

\* longest text handed to ChunkType::from_str / ChunkType::from
MaxText == 5

\* longest generated payload (the test message of chunk.rs is added to these)
MaxData == 1

-----------------------------------------------------------------------------
(* Machine arithmetic *)

RECURSIVE BitXor(_, _)
BitXor(a, b) ==
    IF a = 0 THEN b
    ELSE IF b = 0 THEN a
    ELSE ((a + b) % 2) + 2 * BitXor(a \div 2, b \div 2)

RECURSIVE BitAnd(_, _)
BitAnd(a, b) ==
    IF a = 0 \/ b = 0 THEN 0
    ELSE ((a % 2) * (b % 2)) + 2 * BitAnd(a \div 2, b \div 2)

\* a usize cast to u32 (`as u32`): the low 32 bits
AsU32(n) == <<(n \div 65536) % 65536, n % 65536>>

\* ^ on 4-bit digits, tabulated, and on 16-bit halves digit by digit
Xor4 == [a \in 0..15 |-> [b \in 0..15 |-> BitXor(a, b)]]

Xor16(a, b) ==
    Xor4[a % 16][b % 16]
    + 16 * Xor4[(a \div 16) % 16][(b \div 16) % 16]
    + 256 * Xor4[(a \div 256) % 16][(b \div 256) % 16]
    + 4096 * Xor4[a \div 4096][b \div 4096]

U32Xor(x, y) == <<Xor16(x[1], y[1]), Xor16(x[2], y[2])>>

\* x >> 1 and x >> 8 on a u32
U32Shr1(x) == <<x[1] \div 2, (x[1] % 2) * 32768 + (x[2] \div 2)>>
U32Shr8(x) == <<x[1] \div 256, (x[1] % 256) * 256 + (x[2] \div 256)>>

\* !x on a u32
U32Not(x) == <<65535 - x[1], 65535 - x[2]>>

\* u32::to_be_bytes
to_be_bytes(x) == <<x[1] \div 256, x[1] % 256, x[2] \div 256, x[2] % 256>>

\* [a, b].concat()
concat(a, b) == a \o b

-----------------------------------------------------------------------------
(* crc::crc32::checksum_ieee, table driven as in the crc crate *)

\* the reflected IEEE polynomial 0xEDB88320
IEEE == <<60856, 33568>>

RECURSIVE make_table_entry(_, _)
make_table_entry(v, n) ==
    IF n = 0 THEN v
    ELSE make_table_entry(IF v[2] % 2 = 1 THEN U32Xor(IEEE, U32Shr1(v))
                                          ELSE U32Shr1(v), n - 1)

IEEE_TABLE == [i \in 0..255 |-> make_table_entry(<<0, i>>, 8)]

RECURSIVE crc_update(_, _, _)
crc_update(v, bytes, i) ==
    IF i > Len(bytes) THEN v
    ELSE LET next == U32Xor(IEEE_TABLE[Xor16(v[2] % 256, bytes[i])], U32Shr8(v))
         IN  IF next[1] >= 0 THEN crc_update(next, bytes, i + 1) ELSE next

checksum_ieee(bytes) == U32Not(crc_update(U32Not(<<0, 0>>), bytes, 1))

-----------------------------------------------------------------------------
(* Outcomes of a call *)

None == <<>>
Some(x) == <<x>>

Outcome(op, status, err, flag, bytes) ==
    [op |-> op, status |-> status, err |-> err, flag |-> flag, bytes |-> bytes]

Panic(op) == Outcome(op, "panic", "", FALSE, <<>>)
Err(op, msg) == Outcome(op, "Err", msg, FALSE, <<>>)
OkUnit(op) == Outcome(op, "Ok", "", FALSE, <<>>)
OkBool(op, b) == Outcome(op, "Ok", "", b, <<>>)
OkBytes(op, bs) == Outcome(op, "Ok", "", FALSE, bs)

-----------------------------------------------------------------------------
(* std::str::from_utf8 / String::from_utf8: is the byte sequence UTF-8 *)

IsCont(b) == b >= 128 /\ b <= 191

RECURSIVE is_utf8(_)
is_utf8(bs) ==
    IF Len(bs) = 0 THEN TRUE
    ELSE LET b == bs[1]
             n == Len(bs)
         IN  IF b < 128 THEN is_utf8(Tail(bs))
             ELSE IF b >= 194 /\ b <= 223
             THEN n >= 2 /\ IsCont(bs[2]) /\ is_utf8(SubSeq(bs, 3, n))
             ELSE IF b >= 224 /\ b <= 239
             THEN /\ n >= 3
                  /\ IsCont(bs[2]) /\ IsCont(bs[3])
                  /\ (b = 224 => bs[2] >= 160)
                  /\ (b = 237 => bs[2] <= 159)
                  /\ is_utf8(SubSeq(bs, 4, n))
             ELSE IF b >= 240 /\ b <= 244
             THEN /\ n >= 4
                  /\ IsCont(bs[2]) /\ IsCont(bs[3]) /\ IsCont(bs[4])
                  /\ (b = 240 => bs[2] >= 144)
                  /\ (b = 244 => bs[2] <= 143)
                  /\ is_utf8(SubSeq(bs, 5, n))
             ELSE FALSE

-----------------------------------------------------------------------------
(* chunk_type.rs: ChunkType { bytes: Vec<u8> } *)

ChunkType(bytes) == [bytes |-> bytes]

\* the selector 0b00100000
fifth_bit_selector == 32

\* the slip of selecting bit 0x10
fifth_bit_is_zero_other_bit(byte) == BitAnd(byte, 16) = 0

fifth_bit_is_zero(byte) == BitAnd(byte, fifth_bit_selector) = 0

\* bytes(): the Vec as a [u8; 4]; Ok with the bytes, or the expect() panic
bytes(self) ==
    IF Len(self.bytes) = 4 THEN OkBytes("bytes", self.bytes)
    ELSE Panic("bytes")

is_bytes_value_valid(self) ==
    \A i \in 1..Len(self.bytes) :
        LET x == self.bytes[i]
        IN  IF x >= 65 /\ x <= 90 THEN TRUE
            ELSE IF x >= 97 /\ x <= 122 THEN TRUE
            ELSE FALSE

\* self.bytes[i] of the source is self.bytes[i + 1] here; an index out of the
\* Vec's range panics
is_critical(self) ==
    IF Len(self.bytes) < 1 THEN Panic("is_critical")
    ELSE OkBool("is_critical", fifth_bit_is_zero(self.bytes[1]))

is_public(self) ==
    IF Len(self.bytes) < 2 THEN Panic("is_public")
    ELSE OkBool("is_public", fifth_bit_is_zero(self.bytes[2]))

is_reserved_bit_valid(self) ==
    IF Len(self.bytes) < 3 THEN Panic("is_reserved_bit_valid")
    ELSE OkBool("is_reserved_bit_valid", fifth_bit_is_zero(self.bytes[3]))

is_safe_to_copy(self) ==
    IF Len(self.bytes) < 4 THEN Panic("is_safe_to_copy")
    ELSE OkBool("is_safe_to_copy", ~fifth_bit_is_zero(self.bytes[4]))

\* && evaluates is_reserved_bit_valid only when the bytes are letters
is_valid(self) ==
    IF ~is_bytes_value_valid(self) THEN OkBool("is_valid", FALSE)
    ELSE LET r == is_reserved_bit_valid(self)
         IN  IF r.status = "panic" THEN Panic("is_valid")
             ELSE OkBool("is_valid", r.flag)

\* impl TryFrom<[u8; 4]> for ChunkType: always Ok
ChunkType_try_from(value4) ==
    [res |-> OkUnit("ChunkType::try_from"), val |-> Some(ChunkType(value4))]

\* impl FromStr for ChunkType
ChunkType_from_str(s) ==
    IF Len(s) > 4
    THEN [res |-> Err("from_str", "Invalid size"), val |-> None]
    ELSE IF ~is_bytes_value_valid(ChunkType(s))
    THEN [res |-> Err("from_str", "Invalid chunk"), val |-> None]
    ELSE [res |-> OkUnit("from_str"), val |-> Some(ChunkType(s))]

\* impl From<String> for ChunkType
ChunkType_from(s) ==
    [res |-> OkUnit("from"), val |-> Some(ChunkType(s))]

\* impl Display for ChunkType: String::from_utf8(..).unwrap(), then written out
ChunkType_fmt(self) ==
    IF is_utf8(self.bytes) THEN OkBytes("to_string", self.bytes)
    ELSE Panic("to_string")

-----------------------------------------------------------------------------
(* chunk.rs: Chunk { length: usize, chunk_type, chunk_data: Vec<u8>, crc: u32 } *)

\* the slip of checksumming the data without the chunk type
Chunk_new_crc_of_data(ctype, data) ==
    LET b == ChunkType(ctype.bytes)
    IN  IF Len(b.bytes) # 4
        THEN [res |-> Outcome("Chunk::new", "panic", "", FALSE, <<>>), val |-> <<>>]
        ELSE [res |-> Outcome("Chunk::new", "Ok", "", FALSE, <<>>),
              val |-> <<[chunk_type |-> ctype,
                         chunk_data |-> data,
                         length |-> Len(data),
                         crc |-> checksum_ieee(data)]>>]

\* Chunk::new: chunk_type.bytes() panics on a ChunkType that is not 4 bytes
Chunk_new(ctype, data) ==
    LET b == bytes(ctype)
    IN  IF b.status = "panic"
        THEN [res |-> Panic("Chunk::new"), val |-> None]
        ELSE LET size == Len(data)
                 vec_to_check == concat(b.bytes, data)
                 check == checksum_ieee(vec_to_check)
             IN  [res |-> OkUnit("Chunk::new"),
                  val |-> Some([chunk_type |-> ctype,
                                chunk_data |-> data,
                                length |-> size,
                                crc |-> check])]

length(self) == AsU32(self.length)
data(self) == self.chunk_data
crc(self) == self.crc

\* as_bytes is todo!()
as_bytes(self) == Panic("as_bytes")

\* the slip of reading the four bytes least significant first
bytes_to_number_little_endian(b) == <<b[4] * 256 + b[3], b[2] * 256 + b[1]>>

\* (b[0] << 24) + (b[1] << 16) + (b[2] << 8) + (b[3] << 0) as a u32
bytes_to_number(b) == <<b[1] * 256 + b[2], b[3] * 256 + b[4]>>

\* the slip of comparing the crc before the declared length
Chunk_try_from_crc_first(v) ==
    LET op == "Chunk::try_from"
    IN  IF Len(v) < 12 THEN [res |-> Panic(op), val |-> None]
        ELSE
        LET data_length == bytes_to_number(SubSeq(v, 1, 4))
            made == Chunk_new(ChunkType(SubSeq(v, 5, 8)), SubSeq(v, 9, Len(v) - 4))
            crc_slice == SubSeq(v, Len(v) - 3, Len(v))
        IN  IF crc(made.val[1]) # bytes_to_number(crc_slice)
            THEN [res |-> Err(op, "Invalid chunk CRC length declared"), val |-> None]
            ELSE IF length(made.val[1]) # data_length
            THEN [res |-> Err(op, "Invalid chunk length declared"), val |-> None]
            ELSE [res |-> OkUnit(op), val |-> made.val]

\* impl TryFrom<&Vec<u8>> for Chunk.  &value[..4], &value_slice[4..8] and the
\* subtraction rest_bytes.len() - 4 (overflow check in a debug build, a wrapped
\* index that the slicing rejects in a release build) panic on a short buffer.
Chunk_try_from(v) ==
    LET op == "Chunk::try_from"
    IN  IF Len(v) < 4 THEN [res |-> Panic(op), val |-> None]
        ELSE
        LET data_length == bytes_to_number(SubSeq(v, 1, 4))
        IN  IF Len(v) < 8 THEN [res |-> Panic(op), val |-> None]
            ELSE
            LET ctype == ChunkType_try_from(SubSeq(v, 5, 8))
            IN  IF ctype.res.status = "Err"
                THEN [res |-> Err(op, "Failed to build chunk type"), val |-> None]
                ELSE
                LET rest_bytes == SubSeq(v, 9, Len(v))
                IN  IF Len(rest_bytes) < 4 THEN [res |-> Panic(op), val |-> None]
                    ELSE
                    LET crc_starting_index == Len(rest_bytes) - 4
                        crc_slice == SubSeq(rest_bytes, crc_starting_index + 1,
                                            Len(rest_bytes))
                        made == Chunk_new(ctype.val[1],
                                          SubSeq(rest_bytes, 1, crc_starting_index))
                    IN  IF made.res.status = "panic"
                        THEN [res |-> Panic(op), val |-> None]
                        ELSE IF length(made.val[1]) # data_length
                        THEN [res |-> Err(op, "Invalid chunk length declared"),
                              val |-> None]
                        ELSE IF crc(made.val[1]) # bytes_to_number(crc_slice)
                        THEN [res |-> Err(op, "Invalid chunk CRC length declared"),
                              val |-> None]
                        ELSE [res |-> OkUnit(op), val |-> made.val]

-----------------------------------------------------------------------------
(* The inputs *)

RECURSIVE SeqsUpTo(_, _)
SeqsUpTo(S, n) ==
    IF n = 0 THEN {<<>>}
    ELSE LET shorter == SeqsUpTo(S, n - 1)
         IN  shorter \cup {Append(s, x) : s \in shorter, x \in S}

\* "RuSt", "Rust", "ruSt", "RUSt", "RuST", "Ru1t" of the tests of chunk_type.rs
TestTexts ==
    { <<82, 117, 83, 116>>, <<82, 117, 115, 116>>, <<114, 117, 83, 116>>,
      <<82, 85, 83, 116>>, <<82, 117, 83, 84>>, <<82, 117, 49, 116>> }

\* letters, a digit, and a two-byte character (195, 169)
TextBytes == {65, 122, 49}
Texts ==
    SeqsUpTo(TextBytes, MaxText) \cup TestTexts
        \cup { <<195, 169>>, <<195, 169, 65, 65>>, <<65, 195, 169, 65, 65>> }

\* the bytes at the edges of the two letter ranges
TagBytes == {64, 65, 90, 91, 97, 122}
TagArrays ==
    [1..4 -> TagBytes] \cup TestTexts
        \cup { <<255, 65, 65, 65>>, <<195, 169, 65, 65>>, <<65, 65, 65, 195>>,
               <<240, 159, 146, 150>>, <<237, 160, 128, 65>> }

\* "This is where your secret message will be!" of the tests of chunk.rs
TestMessage ==
    << 84, 104, 105, 115, 32, 105, 115, 32, 119, 104, 101, 114, 101, 32, 121,
       111, 117, 114, 32, 115, 101, 99, 114, 101, 116, 32, 109, 101, 115, 115,
       97, 103, 101, 32, 119, 105, 108, 108, 32, 98, 101, 33 >>

DataBytes == {0, 255}
Payloads == SeqsUpTo(DataBytes, MaxData) \cup {TestMessage}

\* the buffers handed to Chunk::try_from: built as the tests of chunk.rs build
\* theirs (declared length, type, message, crc), with any declared length and
\* trailer, and cut short at any point
WireTags ==
    { <<82, 117, 83, 116>>, <<65, 122, 90, 97>>, <<82, 117, 49, 116>>,
      <<64, 65, 65, 65>> }

DeclaredLengths ==
    {AsU32(n) : n \in 0..(MaxData + 1)} \cup {AsU32(42), <<256, 0>>, <<0, 256>>}

Flip(x, k) ==
    IF k < 16 THEN U32Xor(x, <<0, 2 ^ k>>)
    ELSE U32Xor(x, <<2 ^ (k - 16), 0>>)

\* 2882656333, the crc of test_invalid_chunk_from_bytes
TestBadCrc == <<43985, 55373>>

Trailers(c) ==
    {c, <<0, 0>>, U32Not(c), TestBadCrc} \cup {Flip(c, k) : k \in 0..31}

chunk_data_of(data_length, ctype, message_bytes, c) ==
    to_be_bytes(data_length) \o ctype \o message_bytes \o to_be_bytes(c)

Wires ==
    UNION { { chunk_data_of(d, t, m, c) : d \in DeclaredLengths,
                                          c \in Trailers(checksum_ieee(t \o m)) }
            : t \in WireTags, m \in Payloads }

Buffers == UNION { {SubSeq(w, 1, n) : n \in 0..Len(w)} : w \in Wires }

-----------------------------------------------------------------------------
(* The state: the ChunkType and the Chunk the caller holds, the bytes it    *)
(* handed to the last constructor, and the outcome of the last call.  A     *)
(* panic ends the run.                                                      *)

Init ==
    /\ chunk_type = None
    /\ chunk = None
    /\ value = <<>>
    /\ ret = OkUnit("none")

Fresh == ret.op = "none"
Running == ret.status # "panic"
Built == ret.status = "Ok" /\ ret.op \in {"ChunkType::try_from", "from_str", "from"}

Call_ChunkType_try_from ==
    /\ Fresh
    /\ \E a \in TagArrays :
         LET r == ChunkType_try_from(a)
         IN  /\ value' = a
             /\ chunk_type' = r.val
             /\ ret' = r.res
    /\ UNCHANGED chunk

Call_ChunkType_from_str ==
    /\ Fresh
    /\ \E s \in Texts :
         LET r == ChunkType_from_str(s)
         IN  /\ value' = s
             /\ chunk_type' = r.val
             /\ ret' = r.res
    /\ UNCHANGED chunk

Call_ChunkType_from ==
    /\ Fresh
    /\ \E s \in Texts :
         LET r == ChunkType_from(s)
         IN  /\ value' = s
             /\ chunk_type' = r.val
             /\ ret' = r.res
    /\ UNCHANGED chunk

\* a method of the ChunkType the caller holds
Method(result) ==
    /\ Running
    /\ ret' = result
    /\ UNCHANGED <<chunk_type, chunk, value>>

Call_bytes == chunk_type # None /\ Method(bytes(chunk_type[1]))
Call_is_valid == chunk_type # None /\ Method(is_valid(chunk_type[1]))
Call_is_critical == chunk_type # None /\ Method(is_critical(chunk_type[1]))
Call_is_public == chunk_type # None /\ Method(is_public(chunk_type[1]))
Call_is_reserved_bit_valid ==
    chunk_type # None /\ Method(is_reserved_bit_valid(chunk_type[1]))
Call_is_safe_to_copy ==
    chunk_type # None /\ Method(is_safe_to_copy(chunk_type[1]))
Call_to_string == chunk_type # None /\ Method(ChunkType_fmt(chunk_type[1]))

\* Chunk::new takes the ChunkType by value.  The methods above take &self and
\* change nothing, so a run hands the ChunkType over as it was built.
Call_Chunk_new ==
    /\ Built
    /\ chunk_type # None
    /\ \E d \in Payloads :
         LET r == Chunk_new(chunk_type[1], d)
         IN  /\ chunk' = r.val
             /\ ret' = r.res
    /\ chunk_type' = None
    /\ UNCHANGED value

Call_as_bytes ==
    /\ Running
    /\ chunk # None
    /\ ret' = as_bytes(chunk[1])
    /\ UNCHANGED <<chunk_type, chunk, value>>

Call_Chunk_try_from ==
    /\ Fresh
    /\ \E v \in Buffers :
         LET r == Chunk_try_from(v)
         IN  /\ value' = v
             /\ chunk' = r.val
             /\ ret' = r.res
    /\ UNCHANGED chunk_type

Next ==
    \/ Call_ChunkType_try_from
    \/ Call_ChunkType_from_str
    \/ Call_ChunkType_from
    \/ Call_bytes
    \/ Call_is_valid
    \/ Call_is_critical
    \/ Call_is_public
    \/ Call_is_reserved_bit_valid
    \/ Call_is_safe_to_copy
    \/ Call_to_string
    \/ Call_Chunk_new
    \/ Call_as_bytes
    \/ Call_Chunk_try_from

Spec == Init /\ [][Next]_vars

-----------------------------------------------------------------------------
(* What the properties are stated with: the letters, bit 0x20, the          *)
(* big-endian reading of a length, and CRC-32/IEEE computed bit by bit      *)
(* (no table) from its generator polynomial.                                *)

Letters == (65..90) \cup (97..122)
AllLetters(bs) == \A i \in 1..Len(bs) : bs[i] \in Letters
Bit5(b) == (b \div 32) % 2

\* x^32 + x^26 + x^23 + x^22 + x^16 + x^12 + x^11 + x^10 + x^8 + x^7 + x^5
\* + x^4 + x^2 + x + 1; bit i of the reflected register is the coefficient
\* of x^(31 - i)
PolyExponents == {26, 23, 22, 16, 12, 11, 10, 8, 7, 5, 4, 2, 1, 0}
PolyBits == [i \in 1..32 |-> IF (32 - i) \in PolyExponents THEN 1 ELSE 0]

RECURSIVE BitsValue(_, _, _)
BitsValue(bits, from, to) ==
    IF from > to THEN 0 ELSE bits[from] + 2 * BitsValue(bits, from + 1, to)

RefPoly == <<BitsValue(PolyBits, 17, 32), BitsValue(PolyBits, 1, 16)>>

\* one bit: shift right, and subtract the polynomial when a 1 falls out
RECURSIVE RefBitSteps(_, _)
RefBitSteps(reg, n) ==
    IF n = 0 THEN reg
    ELSE LET shifted == U32Shr1(reg)
             next == IF reg[2] % 2 = 1 THEN U32Xor(shifted, RefPoly) ELSE shifted
         IN  IF next[1] >= 0 THEN RefBitSteps(next, n - 1) ELSE next

RECURSIVE RefBytes(_, _, _)
RefBytes(reg, bs, i) ==
    IF i > Len(bs) THEN reg
    ELSE LET next == RefBitSteps(U32Xor(reg, <<0, bs[i]>>), 8)
         IN  IF next[1] >= 0 THEN RefBytes(next, bs, i + 1) ELSE next

\* the CRC: the register, started at all ones, complemented at the end
Crc32Reference(bs) ==
    LET reg == RefBytes(<<65535, 65535>>, bs, 1)
    IN  <<65535 - reg[1], 65535 - reg[2]>>

\* the four bytes of a u32, most significant first
BigEndian(x) == <<x[1] \div 256, x[1] % 256, x[2] \div 256, x[2] % 256>>

\* the big-endian number in bytes 0..4 of a buffer is n (n < 2^24)
DeclaresLength(v, n) == v[1] = 0 /\ v[2] * 65536 + v[3] * 256 + v[4] = n

Parsed == ret.op = "Chunk::try_from"
TagOf(v) == SubSeq(v, 5, 8)
TrailerOf(v) == SubSeq(v, Len(v) - 3, Len(v))
CheckedPart(v) == SubSeq(v, 5, Len(v) - 4)

LengthError == "Invalid chunk length declared"
CrcError == "Invalid chunk CRC length declared"
TagError == "Failed to build chunk type"

RuSt == <<82, 117, 83, 116>>

-----------------------------------------------------------------------------
(* The properties *)

\* C1: every Chunk obtained from Chunk::new or from a successful
\* Chunk::try_from is self-consistent: crc() is CRC-32/IEEE of the 4 type
\* bytes followed by the data, and length() is the number of bytes of data().
C1_SelfConsistent ==
    chunk # None =>
        LET c == chunk[1]
        IN  /\ crc(c) = Crc32Reference(c.chunk_type.bytes \o data(c))
            /\ length(c)[1] * 65536 + length(c)[2] = Len(data(c))

\* test_new_chunk: "RuSt" and the test message give length 42, crc 2882656334
C1_Witness ==
    /\ ret.op = "Chunk::new"
    /\ chunk # None
    /\ chunk[1].chunk_type.bytes = RuSt
    /\ data(chunk[1]) = TestMessage
    /\ length(chunk[1]) = <<0, 42>>
    /\ crc(chunk[1]) = <<43985, 55374>>

\* C2: serializing Chunk::new(t, p) for a type t of 4 letters and parsing the
\* result succeeds and yields the same type bytes, data and crc.
C2_RoundTrip ==
    (ret.op = "as_bytes" /\ AllLetters(chunk[1].chunk_type.bytes)) =>
        /\ ret.status = "Ok"
        /\ LET r == Chunk_try_from(ret.bytes)
           IN  /\ r.res.status = "Ok"
               /\ r.val[1].chunk_type.bytes = chunk[1].chunk_type.bytes
               /\ data(r.val[1]) = data(chunk[1])
               /\ crc(r.val[1]) = crc(chunk[1])

\* C3: Chunk::try_from returns an error, and does not panic, on every buffer
\* of fewer than 12 bytes.
C3_ShortBufferIsError ==
    (Parsed /\ Len(value) < 12) => ret.status = "Err"

\* C4: ChunkType::from_str is Ok exactly for the texts of 4 bytes that are all
\* ASCII letters, and an error for every other text.
C4_FromStrExactlyFourLetters ==
    ret.op = "from_str" =>
        (ret.status = "Ok" <=> (Len(value) = 4 /\ AllLetters(value)))

\* C5: Chunk::try_from rejects with the invalid-type error every buffer of at
\* least 12 bytes whose bytes 4..8 hold a byte that is not an ASCII letter,
\* whatever the declared length and the trailing crc.
C5_InvalidTagRejected ==
    (Parsed /\ Len(value) >= 12 /\ ~AllLetters(TagOf(value))) =>
        (ret.status = "Err" /\ ret.err = TagError)

\* C6: a buffer that is well formed but for its 4 trailing bytes (declared
\* length = data size, 4 letters, data, any trailer other than the CRC-32 of
\* type and data) makes Chunk::try_from return the crc error and no Chunk.
WellFormedButTrailer(v) ==
    /\ Len(v) >= 12
    /\ DeclaresLength(v, Len(v) - 12)
    /\ AllLetters(TagOf(v))
    /\ TrailerOf(v) # BigEndian(Crc32Reference(CheckedPart(v)))

C6_TamperedCrcDetected ==
    (Parsed /\ WellFormedButTrailer(value)) =>
        (ret.status = "Err" /\ ret.err = CrcError /\ chunk = None)

\* test_invalid_chunk_from_bytes: the test message with crc 2882656333
C6_Witness ==
    /\ Parsed
    /\ WellFormedButTrailer(value)
    /\ value = chunk_data_of(<<0, 42>>, RuSt, TestMessage, TestBadCrc)
    /\ ret.status = "Err"

\* C7: a buffer of at least 12 bytes with a type of 4 letters whose declared
\* length is not the number of bytes between the type and the trailer makes
\* Chunk::try_from fail with the length error (never a Chunk, never the crc
\* error), whatever the trailer holds.
DeclaresWrongLength(v) ==
    /\ Len(v) >= 12
    /\ AllLetters(TagOf(v))
    /\ ~DeclaresLength(v, Len(v) - 12)

C7_WrongLengthDetected ==
    (Parsed /\ DeclaresWrongLength(value)) =>
        (ret.status = "Err" /\ ret.err = LengthError /\ chunk = None)

\* a wrong declared length in front of a trailer that is not the crc
C7_Witness ==
    /\ Parsed
    /\ DeclaresWrongLength(value)
    /\ Len(value) > 12
    /\ TrailerOf(value) # BigEndian(Crc32Reference(CheckedPart(value)))
    /\ ret.err = LengthError

\* C8: on a ChunkType of 4 bytes, is_critical / is_public /
\* is_reserved_bit_valid are true iff bit 0x20 of byte 0 / 1 / 2 is clear,
\* is_safe_to_copy iff bit 0x20 of byte 3 is set, and is_valid iff the 4 bytes
\* are ASCII letters and bit 0x20 of byte 2 is clear.
C8_BitPredicates ==
    (chunk_type # None /\ Len(chunk_type[1].bytes) = 4) =>
        LET b == chunk_type[1].bytes
            Answers(flag) == ret.status = "Ok" /\ ret.flag = flag
        IN  /\ ret.op = "is_critical" => Answers(Bit5(b[1]) = 0)
            /\ ret.op = "is_public" => Answers(Bit5(b[2]) = 0)
            /\ ret.op = "is_reserved_bit_valid" => Answers(Bit5(b[3]) = 0)
            /\ ret.op = "is_safe_to_copy" => Answers(Bit5(b[4]) = 1)
            /\ ret.op = "is_valid" => Answers(AllLetters(b) /\ Bit5(b[3]) = 0)

\* test_valid_chunk_is_valid: "RuSt" is valid
C8_Witness ==
    /\ chunk_type # None
    /\ chunk_type[1].bytes = RuSt
    /\ ret.op = "is_valid"
    /\ ret.flag

\* C9: rendering a ChunkType as text never panics; on bytes that are not
\* UTF-8 it gives an error.
C9_DisplayNeverPanics ==
    ret.op = "to_string" =>
        /\ ret.status # "panic"
        /\ ~is_utf8(chunk_type[1].bytes) => ret.status = "Err"

\* C10: every ChunkType a public constructor gives holds exactly 4 bytes, and
\* bytes(), the bit predicates and Chunk::new do not panic on it.
C10_AlwaysFourBytes ==
    /\ chunk_type # None => Len(chunk_type[1].bytes) = 4
    /\ ret.op \in {"bytes", "is_critical", "is_public", "is_reserved_bit_valid",
                   "is_safe_to_copy", "Chunk::new"} => ret.status # "panic"

====
